---- MODULE Spec2Model ----
(***************************************************************************)
(* A model of the lapidary image generator (src/src/gen.rs): the           *)
(* direction set `Neighbours`, the boundary pruner, the three tree         *)
(* generators (Test, Spiral, Prim) and the parallel colourer with its      *)
(* single writer thread, driven by new_image.                              *)
(*                                                                         *)
(* Unsigned machine integers are carried as ordinary integers: a negative  *)
(* value n stands for the wrapped value 2^w + n that a build without       *)
(* overflow checks computes.  A build with overflow checks panics instead. *)
(***************************************************************************)
EXTENDS Integers, Sequences, FiniteSets, TLC

(***************************************************************************)
(* Bounds of the model.                                                    *)
(***************************************************************************)
\* Largest width and height of the grids of Spec (new_image end to end).
MaxDim == 3
\* Largest number of cells of the grids of Spec.
MaxCells == 9
\* Largest number of cells of a grid handed to the Prim generator in Spec.
MaxPrimCells == 4
\* Largest width and height of the grids of SpecSpiral.
MaxSpiralDim == 5
\* Largest number of cells of the grids of SpecPrim.
MaxPrimOnlyCells == 4
\* Largest number of cells of the grids of SpecPrune.
MaxPruneCells == 4
\* Longest chain of applications of TestGen::colour in SpecTestColour.
MaxApplications == 1600
\* Largest row and column the methods of Neighbours are called with.
MaxPos == 2
\* Largest number of places of a rotation in SpecDirs.
MaxPlaces == 9
\* Largest number of initial points of PrimTree in SpecPrimSeeds.
MaxSeeds == 2
\* Longest chain of calls of the walk followed in SpecCycle.
MaxDepth == 4
\* Largest number of undirected edges of a grid handed to lay_colours in
\* SpecCycle.
MaxCycleEdges == 4

(***************************************************************************)
(* Neighbours: the bitflags type.  A value is the set of its bit           *)
(* positions, 0 (NORTH) to 7 (NORTHWEST).                                  *)
(***************************************************************************)
NORTH == {0}
NORTHEAST == {1}
EAST == {2}
SOUTHEAST == {3}
SOUTH == {4}
SOUTHWEST == {5}
WEST == {6}
NORTHWEST == {7}
NORTHWARD == NORTH \cup NORTHEAST \cup NORTHWEST
SOUTHWARD == SOUTH \cup SOUTHEAST \cup SOUTHWEST
EASTWARD == EAST \cup SOUTHEAST \cup NORTHEAST
WESTWARD == WEST \cup SOUTHWEST \cup NORTHWEST

\* Neighbours::empty() and Neighbours::all()
EmptyDirs == {}
AllDirs == NORTHWARD \cup SOUTHWARD \cup EAST \cup WEST

\* Neighbours::DIRECTIONS, the canonical order
DIRECTIONS == <<NORTH, NORTHEAST, EAST, SOUTHEAST, SOUTH, SOUTHWEST, WEST, NORTHWEST>>

\* The single directions (the elements of DIRECTIONS).
Singles == {DIRECTIONS[i] : i \in 1..8}

\* Option::None and Result::Err where a Neighbours is expected: values that
\* are no set of bit positions (TLC compares sets with sets only).
None == {-1}
Err == {-2}

\* bitflags contains: every bit of other is set in self
Contains(self, other) == other \subseteq self

\* A reverse that mirrors north and south and leaves east and west alone.
ReverseNorthSouth(self) ==
  IF Cardinality(self) = 1 THEN {(12 - b) % 8 : b \in self} ELSE None

\* A reverse that turns every bit by half a turn, whatever the value.
ReverseByRotation(self) == {(b + 4) % 8 : b \in self}

\* Neighbours::reverse: a match on the eight single directions
Reverse(self) ==
  CASE self = NORTH -> SOUTH
    [] self = NORTHEAST -> SOUTHWEST
    [] self = EAST -> WEST
    [] self = SOUTHEAST -> NORTHWEST
    [] self = SOUTH -> NORTH
    [] self = SOUTHWEST -> NORTHEAST
    [] self = WEST -> EAST
    [] self = NORTHWEST -> SOUTHEAST
    [] OTHER -> None

\* Neighbours::step on (u32, u32)
Step(self, pos) ==
  LET row == IF Contains(NORTHWARD, self) THEN pos[1] - 1
             ELSE IF Contains(SOUTHWARD, self) THEN pos[1] + 1
             ELSE pos[1]
      col == IF Contains(WESTWARD, self) THEN pos[2] - 1
             ELSE IF Contains(EASTWARD, self) THEN pos[2] + 1
             ELSE pos[2]
  IN <<row, col>>

\* Neighbours::step_usize on (usize, usize)
StepUsize(self, pos) ==
  LET row == IF Contains(NORTHWARD, self) THEN pos[1] - 1
             ELSE IF Contains(SOUTHWARD, self) THEN pos[1] + 1
             ELSE pos[1]
      col == IF Contains(WESTWARD, self) THEN pos[2] - 1
             ELSE IF Contains(EASTWARD, self) THEN pos[2] + 1
             ELSE pos[2]
  IN <<row, col>>

\* Whether step / step_usize leaves the unsigned range: `row -= 1` or
\* `col -= 1` at 0, or `+= 1` at the largest value (carried as -1).
StepOverflows(self, pos) ==
  \/ Contains(NORTHWARD, self) /\ pos[1] = 0
  \/ ~Contains(NORTHWARD, self) /\ Contains(SOUTHWARD, self) /\ pos[1] = -1
  \/ Contains(WESTWARD, self) /\ pos[2] = 0
  \/ ~Contains(WESTWARD, self) /\ Contains(EASTWARD, self) /\ pos[2] = -1

\* A rotate_left that turns the way rotate_right does.
RotateLeftOtherWay(self, places) == {(b + places) % 8 : b \in self}

\* Neighbours::rotate_left: from_bits(bits.rotate_right(places)); every bit
\* of the u8 is a flag, so from_bits never refuses.
RotateLeft(self, places) == {(b - places) % 8 : b \in self}

\* Neighbours::rotate_right: from_bits(bits.rotate_left(places))
RotateRight(self, places) == {(b + places) % 8 : b \in self}

\* An iterator that yields the last element of DIRECTIONS the set contains.
IterNextLast(self) ==
  IF \E i \in 1..8 : Contains(self, DIRECTIONS[i])
  THEN DIRECTIONS[CHOOSE i \in 1..8 :
         /\ Contains(self, DIRECTIONS[i])
         /\ \A j \in (i + 1)..8 : ~Contains(self, DIRECTIONS[j])]
  ELSE None

\* Iterator::next for Neighbours: the first element of DIRECTIONS the set
\* contains, or None.
IterNext(self) ==
  IF \E i \in 1..8 : Contains(self, DIRECTIONS[i])
  THEN DIRECTIONS[CHOOSE i \in 1..8 :
         /\ Contains(self, DIRECTIONS[i])
         /\ \A j \in 1..(i - 1) : ~Contains(self, DIRECTIONS[j])]
  ELSE None

\* self.collect::<Vec<_>>(): the items the iterator yields, in order.
RECURSIVE Collect(_)
Collect(self) ==
  IF IterNext(self) = None THEN <<>>
  ELSE <<IterNext(self)>> \o Collect(self \ IterNext(self))

\* The elements of a sequence.
Range(s) == {s[i] : i \in 1..Len(s)}

(***************************************************************************)
(* The weight closures handed to PrimTree.                                 *)
(***************************************************************************)
\* A closure that takes the row for the column and the column for the row.
ImageWeightTransposed(point, v) ==
  LET x_weight == point[2]
      y_weight == point[1]
  IN 1 + (IF Contains(NORTH \cup SOUTH, v) THEN y_weight * 2
          ELSE IF Contains(EAST \cup WEST, v) THEN x_weight * 2
          ELSE y_weight + x_weight)

\* The closure new_image builds: point is (row, col) of the popped cell.
ImageWeight(point, v) ==
  LET x_weight == point[1]
      y_weight == point[2]
  IN 1 + (IF Contains(NORTH \cup SOUTH, v) THEN y_weight * 2
          ELSE IF Contains(EAST \cup WEST, v) THEN x_weight * 2
          ELSE y_weight + x_weight)

\* weights: the configured closure, by name.  "image" is the closure of
\* new_image; "vertical" (1 for N and S, 0 otherwise) and "zero" are closures
\* a caller of the generic PrimTree and random_direction can pass.
Weights(wm, point, v) ==
  IF wm = "image" THEN ImageWeight(point, v)
  ELSE IF wm = "vertical"
    THEN (IF Contains(NORTH \cup SOUTH, v) THEN 1 ELSE 0)
  ELSE 0

\* A random_direction that draws uniformly, whatever the weights.
RandomDirectionUnweighted(self, wm, point) ==
  IF self = EmptyDirs THEN {Err} ELSE {{b} : b \in self}

\* Neighbours::random_direction: the results it can return.  choose_weighted
\* never picks an item of weight 0 and fails when every weight is 0.
RandomDirection(self, wm, point) ==
  IF self = EmptyDirs THEN {Err}
  ELSE LET directions == Collect(self)
           positive == {d \in Range(directions) : Weights(wm, point, d) > 0}
       IN IF positive = {} THEN {Err} ELSE positive

(***************************************************************************)
(* prune_edges                                                             *)
(***************************************************************************)
\* The (index, flag) removals of prune_edges in the order the two loops
\* make them: rows 0 and height-1, then columns 0 and width-1.
\* Fault variant of PruneOps: the loop over the east border left out.
PruneOpsNoEast(width, height) ==
  [i \in 1..(2 * width + height) |->
     IF i <= width THEN <<0 * width + (i - 1), NORTHWARD>>
     ELSE IF i <= 2 * width THEN <<(height - 1) * width + (i - width - 1), SOUTHWARD>>
     ELSE <<(i - 2 * width - 1) * width + 0, WESTWARD>>]

PruneOps(width, height) ==
  [i \in 1..(2 * width + 2 * height) |->
     IF i <= width THEN <<0 * width + (i - 1), NORTHWARD>>
     ELSE IF i <= 2 * width THEN <<(height - 1) * width + (i - width - 1), SOUTHWARD>>
     ELSE IF i <= 2 * width + height THEN <<(i - 2 * width - 1) * width + 0, WESTWARD>>
     ELSE <<(i - 2 * width - height - 1) * width + (width - 1), EASTWARD>>]

\* Fault variant of ApplyPrune: Neighbours::toggle for Neighbours::remove.
RECURSIVE ApplyPruneToggle(_, _, _)
ApplyPruneToggle(ops, i, grid) ==
  IF i > Len(ops) THEN [status |-> "Ok", grid |-> grid]
  ELSE IF ops[i][1] \notin DOMAIN grid THEN [status |-> "Err", grid |-> grid]
  ELSE ApplyPruneToggle(ops, i + 1,
         [grid EXCEPT ![ops[i][1]] = (@ \ ops[i][2]) \cup (ops[i][2] \ @)])

\* Fault variant of TestTreeGrid: the backbone laid along the middle column
\* instead of the middle row.
TestTreeGridMiddleColumn(width, height) ==
  [i \in 0..(width * height - 1) |->
     IF i % width = width \div 2
     THEN NORTH \cup SOUTH \cup EAST \cup WEST
     ELSE NORTH \cup SOUTH]

\* Apply the removals from the i-th on; grid.get_mut(index) failing ends the
\* function with Err.
RECURSIVE ApplyPrune(_, _, _)
ApplyPrune(ops, i, grid) ==
  IF i > Len(ops) THEN [status |-> "Ok", grid |-> grid]
  ELSE IF ops[i][1] \notin DOMAIN grid THEN [status |-> "Err", grid |-> grid]
  ELSE ApplyPrune(ops, i + 1, [grid EXCEPT ![ops[i][1]] = @ \ ops[i][2]])

\* prune_edges overflows `height - 1` or `width - 1` on an empty dimension.
PruneOverflows(width, height) == width = 0 \/ height = 0

\* prune_edges(width, height, _, grid): its result and the grid it leaves.
\* checked: the build panics on integer overflow.
PruneEdges(width, height, grid, checked) ==
  IF checked /\ PruneOverflows(width, height)
  THEN [status |-> "Panic", grid |-> grid]
  ELSE ApplyPrune(PruneOps(width, height), 1, grid)

(***************************************************************************)
(* TestGen::tree                                                           *)
(***************************************************************************)
\* Fault variant of TestTreeGrid: every edge written at one end only.
TestTreeGridOneWay(width, height) ==
  [i \in 0..(width * height - 1) |->
     IF i \in {(height \div 2) * width + j : j \in 0..(width - 1)}
     THEN SOUTH \cup EAST
     ELSE SOUTH]

TestTreeGrid(width, height) ==
  LET num_pixels == width * height
      col == height \div 2
  IN [i \in 0..(num_pixels - 1) |->
        IF i \in {col * width + j : j \in 0..(width - 1)}
        THEN NORTH \cup SOUTH \cup EAST \cup WEST
        ELSE NORTH \cup SOUTH]

(***************************************************************************)
(* State.                                                                  *)
(***************************************************************************)
VARIABLES
  \* The arguments of new_image (struct Cli) and what it derives from them.
  width, height, tree_gen, colour_gen, step_size, seed,
  start_row,        \* (x * width) as usize
  start_col,        \* (y * height) as usize
  weights,          \* PrimTree.weights, by name
  initial_points,   \* PrimTree.initial_points
  \* Control.
  pc,               \* where new_image (or the generator under study) is
  msg,              \* the context of the error it ended with, "" if none
  build,            \* "debug" panics on integer overflow, "release" wraps;
                    \* "any" until the run meets its first overflow
  \* The grid of direction sets: points / output_points inside a generator,
  \* tree in new_image and in the colourer.
  tree,
  \* SpiralTree::tree
  row, col, direction, turns,
  left,             \* iterations left of `for _ in 0..distance(turns)`
  \* PrimTree::tree
  possible_edges, seen, processed, point_queue, point_index,
  \* lay_colours
  tasks,            \* the calls of lay_colours_in_subtree not yet run: the
                    \* root call and the jobs spawned into the rayon scope
  chan,             \* the mpsc channel: the messages sent and not yet received
  image,            \* the ImageBuffer, by (x, y)
  bar,              \* the progress bar's position: one inc per put_pixel
  writer,           \* the image-mutator thread: "none", "running", "done", "panicked"
  root_result,      \* what the root call returned: "pending", "Ok", "Err"
  scope_panic,      \* a job of the scope (or the root call) has panicked
  sent,             \* history: how many messages were sent for each coordinate
  \* A function studied on its own (prune_edges, rand_channel,
  \* TestGen::colour): what it was called with and what it gave.
  arg, ret

inputVars == <<width, height, tree_gen, colour_gen, step_size, seed,
               start_row, start_col, weights, initial_points>>
spiralVars == <<row, col, direction, turns, left>>
primVars == <<possible_edges, seen, processed, point_queue, point_index>>
walkVars == <<tasks, chan, image, bar, writer, root_result, scope_panic, sent>>
unitVars == <<arg, ret>>

\* The builds a run that has not yet overflowed can still be.
Builds == IF build = "any" THEN {"debug", "release"} ELSE {build}

\* vec![v; n]
VecOf(v, n) == [i \in 0..(n - 1) |-> v]

\* Vec::push on a 1-based sequence
Push(s, e) == Append(s, e)

\* i / n of Rust's signed integers: the quotient truncated toward zero
TruncDiv(i, n) == IF i >= 0 THEN i \div n ELSE -((-i) \div n)

(***************************************************************************)
(* SpiralTree::tree                                                        *)
(***************************************************************************)
\* The closure `distance`; a negative result is an overflow of the usize
\* subtraction.
Distance(t, w, h) ==
  LET half == TruncDiv(t, 2)
      unsigned_abs == IF half < 0 THEN -half ELSE half
  IN (IF t % 2 = 0 THEN w ELSE h) - unsigned_abs - 1

\* The closure `index`
Index(r, c, w) == r * w + c

\* The loop condition `distance(turns) > 0 || distance(turns + 1) > 0`:
\* whether its evaluation overflows (the right operand is evaluated only
\* when the left one is 0) and its value when no panic ends it.
SpiralTestOverflows(t, w, h) ==
  \/ Distance(t, w, h) < 0
  \/ Distance(t, w, h) = 0 /\ Distance(t + 1, w, h) < 0

\* Fault variant of SpiralTestValue: `&&` for `||`.
SpiralTestValueAnd(t, w, h) ==
  Distance(t, w, h) # 0 /\ Distance(t + 1, w, h) # 0

SpiralTestValue(t, w, h) ==
  Distance(t, w, h) # 0 \/ Distance(t + 1, w, h) # 0

\* One iteration of the for loop: the walker moves a step and the edge is
\* written at both ends.
SpiralStepResult(grid, r, c, dir, w, checked) ==
  LET reverse == Reverse(dir)
      new_pos == StepUsize(dir, <<r, c>>)
      cur == Index(new_pos[1], new_pos[2], w)
      prev == Index(r, c, w)
      fail(s, m) == [status |-> s, msg |-> m, grid |-> grid, row |-> r, col |-> c]
  IN IF reverse = None THEN fail("Err", "Failed to reverse invalid direction")
     ELSE IF checked /\ StepOverflows(dir, <<r, c>>)
       THEN fail("Panic", "attempt to subtract with overflow")
     ELSE IF cur \notin DOMAIN grid
       THEN fail("Err", "Couldn't access current position")
     ELSE IF prev \notin DOMAIN grid
       THEN fail("Err", "Couldn't access previous position")
     ELSE [status |-> "Ok", msg |-> "",
           grid |-> [[grid EXCEPT ![cur] = @ \cup reverse]
                       EXCEPT ![prev] = @ \cup dir],
           row |-> new_pos[1], col |-> new_pos[2]]

\* let mut points = vec![empty; num_pixels]; (row, col) = (0, 0);
\* direction = SOUTH; turns = -1
SpiralStart ==
  /\ pc = "tree" /\ tree_gen = "Spiral"
  /\ tree' = VecOf(EmptyDirs, width * height)
  /\ row' = 0 /\ col' = 0
  /\ direction' = SOUTH
  /\ turns' = -1
  /\ left' = 0
  /\ pc' = "spiral_test"
  /\ UNCHANGED <<inputVars, unitVars, walkVars, primVars, msg, build>>

\* The while condition; on true the for loop's range is evaluated.
SpiralTest ==
  /\ pc = "spiral_test"
  /\ \E b \in Builds :
       LET ovf == SpiralTestOverflows(turns, width, height) IN
       /\ build' = IF ovf THEN b ELSE build
       /\ IF ovf /\ b = "debug"
          THEN /\ pc' = "Panic"
               /\ msg' = "attempt to subtract with overflow"
               /\ left' = left
          ELSE IF SpiralTestValue(turns, width, height)
          THEN /\ pc' = "spiral_leg"
               /\ left' = Distance(turns, width, height)
               /\ msg' = msg
          ELSE /\ pc' = "tree_done"
               /\ left' = left
               /\ msg' = msg
  /\ UNCHANGED <<inputVars, unitVars, walkVars, primVars, tree, row, col, direction, turns>>

SpiralStep ==
  /\ pc = "spiral_leg" /\ left # 0
  /\ \E b \in Builds :
       LET r == SpiralStepResult(tree, row, col, direction, width, b = "debug")
       IN /\ build' = IF StepOverflows(direction, <<row, col>>) THEN b ELSE build
          /\ tree' = r.grid
          /\ row' = r.row /\ col' = r.col
          /\ msg' = r.msg
          /\ pc' = IF r.status = "Ok" THEN pc ELSE r.status
          /\ left' = IF r.status = "Ok" THEN left - 1 ELSE left
  /\ UNCHANGED <<inputVars, unitVars, walkVars, primVars, direction, turns>>

\* direction = direction.rotate_left(2)?; turns += 1
SpiralTurn ==
  /\ pc = "spiral_leg" /\ left = 0
  /\ direction' = RotateLeft(direction, 2)
  /\ turns' = turns + 1
  /\ pc' = "spiral_test"
  /\ UNCHANGED <<inputVars, unitVars, walkVars, primVars, tree, row, col, left, msg, build>>

(***************************************************************************)
(* TestGen::tree                                                           *)
(***************************************************************************)
TestTree ==
  /\ pc = "tree" /\ tree_gen = "Test"
  /\ tree' = TestTreeGrid(width, height)
  /\ pc' = "tree_done"
  /\ UNCHANGED <<inputVars, unitVars, walkVars, spiralVars, primVars, msg, build>>

(***************************************************************************)
(* PrimTree::tree                                                          *)
(***************************************************************************)
\* A seeding that queues the initial points without marking them processed.
SeedQueueUnmarked(points, i, queue, proc) ==
  [status |-> "Ok", point_queue |-> points, processed |-> proc]

\* for &index in &self.initial_points { push; processed[index] = true }
\* from the i-th initial point on; a point out of range ends with Err.
RECURSIVE SeedQueue(_, _, _, _)
SeedQueue(points, i, queue, proc) ==
  IF i > Len(points) THEN [status |-> "Ok", point_queue |-> queue, processed |-> proc]
  ELSE IF points[i] \notin DOMAIN proc
    THEN [status |-> "Err", point_queue |-> Push(queue, points[i]), processed |-> proc]
  ELSE SeedQueue(points, i + 1, Push(queue, points[i]),
                 [proc EXCEPT ![points[i]] = TRUE])

\* The (row, col) of a flattened index: (point_index / width, point_index % width)
PointOf(index, w) == <<index \div w, index % w>>

\* point_queue.swap(last_index, from_index); point_queue.pop(): the queue
\* left behind, from_index counted from 1.
SwapRemove(queue, from_index) ==
  SubSeq([queue EXCEPT ![from_index] = queue[Len(queue)]], 1, Len(queue) - 1)

\* A draw loop that commits every drawn edge to the output, whether or not
\* its endpoint was processed before.
PrimDrawResultAlwaysCommit(edge, checked) ==
  LET from == PointOf(point_index, width)
      end == StepUsize(edge, from)
      endpoint == end[1] * width + end[2]
      backwards == Reverse(edge)
      edges1 == [possible_edges EXCEPT ![point_index] = @ \ edge]
  IN IF backwards = None \/ endpoint \notin DOMAIN possible_edges
       THEN [status |-> "Err", msg |-> "", possible_edges |-> edges1,
             seen |-> seen, processed |-> processed,
             point_queue |-> point_queue, tree |-> tree, break |-> TRUE]
     ELSE
       [status |-> "Ok", msg |-> "",
        possible_edges |-> [edges1 EXCEPT ![endpoint] = @ \ backwards],
        seen |-> [seen EXCEPT ![endpoint] = TRUE],
        point_queue |-> IF ~seen[endpoint] THEN Push(point_queue, endpoint)
                        ELSE point_queue,
        processed |-> [processed EXCEPT ![endpoint] = TRUE],
        tree |-> [[tree EXCEPT ![point_index] = @ \cup edge]
                    EXCEPT ![endpoint] = @ \cup backwards],
        break |-> ~processed[endpoint]]

\* One iteration of the `while let` loop for the drawn edge: the edge leaves
\* both available sets, the endpoint is queued if never seen, and the edge is
\* committed to the output when the endpoint was not yet processed.
PrimDrawResult(edge, checked) ==
  LET from == PointOf(point_index, width)
      end == StepUsize(edge, from)
      endpoint == end[1] * width + end[2]
      backwards == Reverse(edge)
      edges1 == [possible_edges EXCEPT ![point_index] = @ \ edge]
      fail(s, m) == [status |-> s, msg |-> m, possible_edges |-> edges1,
                      seen |-> seen, processed |-> processed,
                      point_queue |-> point_queue, tree |-> tree, break |-> TRUE]
  IN IF checked /\ StepOverflows(edge, from)
       THEN fail("Panic", "attempt to subtract with overflow")
     ELSE IF backwards = None
       THEN fail("Err", "Couldn't calculate reverse of direction to a point")
     ELSE IF endpoint \notin DOMAIN possible_edges
       THEN fail("Err", "Failed to remove neighbour point edge")
     ELSE
       [status |-> "Ok", msg |-> "",
        possible_edges |-> [edges1 EXCEPT ![endpoint] = @ \ backwards],
        seen |-> [seen EXCEPT ![endpoint] = TRUE],
        point_queue |-> IF ~seen[endpoint] THEN Push(point_queue, endpoint)
                        ELSE point_queue,
        processed |-> [processed EXCEPT ![endpoint] = TRUE],
        tree |-> IF ~processed[endpoint]
                 THEN [[tree EXCEPT ![point_index] = @ \cup edge]
                         EXCEPT ![endpoint] = @ \cup backwards]
                 ELSE tree,
        break |-> ~processed[endpoint]]

\* The set-up before the main loop.
PrimStart ==
  /\ pc = "tree" /\ tree_gen = "Prim"
  /\ \E b \in Builds :
       LET num_pixels == width * height
           pruned == PruneEdges(width, height, VecOf(AllDirs, num_pixels), b = "debug")
           seeded == SeedQueue(initial_points, 1, <<>>, VecOf(FALSE, num_pixels))
       IN /\ build' = IF PruneOverflows(width, height) THEN b ELSE build
          /\ tree' = VecOf(EmptyDirs, num_pixels)
          /\ possible_edges' = pruned.grid
          /\ seen' = VecOf(FALSE, num_pixels)
          /\ processed' = seeded.processed
          /\ point_queue' = seeded.point_queue
          /\ point_index' = 0
          /\ IF pruned.status # "Ok"
             THEN /\ pc' = pruned.status
                  /\ msg' = "Failed to prune initial complete tree when generating spanning tree"
             ELSE IF seeded.status # "Ok"
             THEN /\ pc' = "Err"
                  /\ msg' = "Initial point out of range to set processed status"
             ELSE /\ pc' = "prim_loop"
                  /\ msg' = msg
  /\ UNCHANGED <<inputVars, unitVars, walkVars, spiralVars>>

\* while !point_queue.is_empty(): an empty queue ends the function with
\* Ok(output_points).
PrimDone ==
  /\ pc = "prim_loop" /\ point_queue = <<>>
  /\ pc' = "tree_done"
  /\ UNCHANGED <<inputVars, unitVars, walkVars, spiralVars, primVars, tree, msg, build>>

\* from_index = rng.gen_range(0..len); swap with the last; pop.
PrimPop ==
  /\ pc = "prim_loop" /\ point_queue # <<>>
  /\ \E from_index \in 1..Len(point_queue) :
       /\ point_index' = point_queue[from_index]
       /\ point_queue' = SwapRemove(point_queue, from_index)
  /\ pc' = "prim_draw"
  /\ UNCHANGED <<inputVars, unitVars, walkVars, spiralVars, possible_edges, seen, processed,
                 tree, msg, build>>

\* The head of the `while let`: random_direction on the popped cell's
\* available edges.  An Err of random_direction ends the loop.
PrimDraw ==
  /\ pc = "prim_draw"
  /\ IF point_index \notin DOMAIN possible_edges
     THEN /\ pc' = "Err" /\ msg' = "Failed to access point "
          /\ UNCHANGED <<possible_edges, seen, processed, point_queue, tree, build>>
     ELSE \E edge \in RandomDirection(possible_edges[point_index], weights,
                                       PointOf(point_index, width)) :
          IF edge = Err
          THEN /\ pc' = "prim_review"
               /\ UNCHANGED <<possible_edges, seen, processed, point_queue,
                              tree, msg, build>>
          ELSE \E b \in Builds : \E r \in {PrimDrawResult(edge, b = "debug")} :
                  /\ build' = IF StepOverflows(edge, PointOf(point_index, width))
                               THEN b ELSE build
                  /\ possible_edges' = r.possible_edges
                  /\ seen' = r.seen
                  /\ processed' = r.processed
                  /\ point_queue' = r.point_queue
                  /\ tree' = r.tree
                  /\ msg' = r.msg
                  /\ pc' = IF r.status # "Ok" THEN r.status
                           ELSE IF r.break THEN "prim_review" ELSE "prim_draw"
  /\ UNCHANGED <<inputVars, unitVars, walkVars, spiralVars, point_index>>

\* Fault variants of Requeue: the popped cell never goes back, or always.
RequeueNever(edges) == FALSE

RequeueAlways(edges) == TRUE

\* Whether the popped cell goes back to the queue after its draw loop.
Requeue(edges) == edges # EmptyDirs

\* After the draw loop: a cell with available edges left returns to the
\* queue, a cell without is finished.
PrimReview ==
  /\ pc = "prim_review"
  /\ IF point_index \notin DOMAIN possible_edges
     THEN /\ pc' = "Err"
          /\ msg' = "Failed to access point to review possible edges"
          /\ point_queue' = point_queue
     ELSE /\ pc' = "prim_loop"
          /\ msg' = msg
          /\ point_queue' = IF Requeue(possible_edges[point_index])
                            THEN Push(point_queue, point_index)
                            ELSE point_queue
  /\ UNCHANGED <<inputVars, unitVars, walkVars, spiralVars, possible_edges, seen, processed,
                 point_index, tree, build>>

(***************************************************************************)
(* new_image: the boundary pruning of the generated tree                   *)
(***************************************************************************)
Prune ==
  /\ pc = "tree_done"
  /\ \E b \in Builds :
       LET r == PruneEdges(width, height, tree, b = "debug")
       IN /\ build' = IF PruneOverflows(width, height) THEN b ELSE build
          /\ tree' = r.grid
          /\ pc' = IF r.status = "Ok" THEN "pruned" ELSE r.status
          /\ msg' = IF r.status = "Ok" THEN msg
                    ELSE "Failed to prune tree at edge of grid"
  /\ UNCHANGED <<inputVars, unitVars, walkVars, spiralVars, primVars>>

(***************************************************************************)
(* Colour generators.  A pixel is <<r, g, b>>.  The state of a generator   *)
(* is [kind, step_size, rng]; rng is the position of the xoshiro stream    *)
(* in its cycle (the Test generator has no state and keeps rng = 0).       *)
(***************************************************************************)
\* How far rng.jump() and rng.long_jump() move a stream (2^64 and 2^96
\* draws in rand_xoshiro), scaled to the model's integers.
JumpLen == 1000
LongJumpLen == 100000

\* The raw sample the stream yields at position p: a fixed function of p.
Raw(p) == (p * 73 + 41) % 256

\* SeedableRng::seed_from_u64
SeedFromU64(s) == s

Min(a, b) == IF a < b THEN a ELSE b
Max(a, b) == IF a > b THEN a ELSE b

\* u8::saturating_add, u8::saturating_sub
SaturatingAdd(a, b) == Min(a + b, 255)
SaturatingSub(a, b) == Max(a - b, 0)

\* A rand_channel drawing from the closed range: gen_range(min..=max).
RandChannelInclusive(old, step, r) ==
  LET max == SaturatingAdd(old, step)
      min == SaturatingSub(old, step)
  IN [panic |-> FALSE, value |-> min + (r % (max - min + 1))]

\* RandColour::rand_channel for the raw sample r: gen_range(min..max)
\* panics on an empty range and never yields max.
RandChannel(old, step, r) ==
  LET max == SaturatingAdd(old, step)
      min == SaturatingSub(old, step)
  IN IF min >= max THEN [panic |-> TRUE, value |-> old]
     ELSE [panic |-> FALSE, value |-> min + (r % (max - min))]

\* Fault variant of TestColour: the arm for a saturated red tried before
\* the arm for saturated red and green.
TestColourGreenFirst(old_colour) ==
  LET r == old_colour[1]
      g == old_colour[2]
      b == old_colour[3]
  IN IF r = 255 /\ g = 255 /\ b = 255 THEN <<0, 0, 0>>
     ELSE IF r = 255 THEN <<255, g + 1, b>>
     ELSE IF r = 255 /\ g = 255 THEN <<255, 255, b + 1>>
     ELSE <<r + 1, g, b>>

\* TestGen::colour
TestColour(old_colour) ==
  LET r == old_colour[1]
      g == old_colour[2]
      b == old_colour[3]
  IN IF r = 255 /\ g = 255 /\ b = 255 THEN <<0, 0, 0>>
     ELSE IF r = 255 /\ g = 255 THEN <<255, 255, b + 1>>
     ELSE IF r = 255 THEN <<255, g + 1, b>>
     ELSE <<r + 1, g, b>>

\* RandColour::colour: three draws, red then green then blue.
RandColourOf(gen, old_colour) ==
  LET r == RandChannel(old_colour[1], gen.step_size, Raw(gen.rng))
      g == RandChannel(old_colour[2], gen.step_size, Raw(gen.rng + 1))
      b == RandChannel(old_colour[3], gen.step_size, Raw(gen.rng + 2))
  IN [panic |-> r.panic \/ g.panic \/ b.panic,
      colour |-> <<r.value, g.value, b.value>>,
      gen |-> [gen EXCEPT !.rng = @ + 3]]

\* GenColour::colour(&mut self, old_colour, direction_into): the colour and
\* the state the generator is left in.
Colour(gen, old_colour, direction_into) ==
  IF gen.kind = "Test"
  THEN [panic |-> FALSE, colour |-> TestColour(old_colour), gen |-> gen]
  ELSE RandColourOf(gen, old_colour)

\* GenColour::new(&mut self): the generator returned (child) and the state
\* self is left in (parent).  RandColour: the clone jumps, self long-jumps.
New(gen) ==
  IF gen.kind = "Test" THEN [child |-> gen, parent |-> gen]
  ELSE [child |-> [gen EXCEPT !.rng = @ + JumpLen],
        parent |-> [gen EXCEPT !.rng = @ + LongJumpLen]]

\* The generator new_image hands to lay_colours.
RootGen ==
  IF colour_gen = "Test" THEN [kind |-> "Test", step_size |-> 0, rng |-> 0]
  ELSE [kind |-> "Rand", step_size |-> step_size, rng |-> SeedFromU64(seed)]

(***************************************************************************)
(* lay_colours and lay_colours_in_subtree                                  *)
(***************************************************************************)
\* A call of lay_colours_in_subtree: path is the directions from the root
\* (the empty path is the root call made inside the scope closure).
Task(path, pos, visited, colour, gen) ==
  [path |-> path, pos |-> pos, visited |-> visited, colour |-> colour, gen |-> gen]

\* Fault variant of GenOf: the calls draw from one generator they share,
\* whose position depends on how far the writer has got.
GenOfShared(t) == [t.gen EXCEPT !.rng = @ + bar]

\* The generator state a call works with: the one it was handed.
GenOf(t) == t.gen

\* The for loop over DIRECTIONS from the i-th direction on, for the call t
\* whose generator is now gen: the jobs it spawns.  A panic (of colour, or
\* of step in a checked build) ends the loop; the jobs spawned before it
\* stay in the scope.
RECURSIVE SpawnLoop(_, _, _, _, _, _, _)
SpawnLoop(i, t, unvisited, gen, checked, spawned, overflowed) ==
  IF i > 8 THEN [status |-> "Ok", spawned |-> spawned, overflowed |-> overflowed]
  ELSE IF ~Contains(unvisited, DIRECTIONS[i])
    THEN SpawnLoop(i + 1, t, unvisited, gen, checked, spawned, overflowed)
  ELSE
    LET child == DIRECTIONS[i]
        ovf == StepOverflows(child, t.pos)
        back == IF Reverse(child) = None THEN EmptyDirs ELSE Reverse(child)
        \* the rest of the iteration, once colour_gen.colour has returned c
        Spawn(c, so_far, ovf_so_far) ==
          LET g == New(c.gen)
              job == Task(Append(t.path, child), Step(child, t.pos), back,
                          c.colour, g.child)
          IN IF c.panic
               THEN [status |-> "Panic", spawned |-> so_far,
                     overflowed |-> ovf_so_far]
             ELSE IF ovf /\ checked
               THEN [status |-> "Panic", spawned |-> so_far, overflowed |-> TRUE]
             ELSE SpawnLoop(i + 1, t, unvisited, g.parent, checked,
                            so_far \cup {job}, ovf_so_far \/ ovf)
    IN CHOOSE r \in {Spawn(c, s, o) : c \in {Colour(gen, t.colour, child)},
                                      s \in {spawned}, o \in {overflowed}} : TRUE

\* The directions a call still has to follow: tree_directions - visited.
Unvisited(tree_directions, visited_directions) == tree_directions \ visited_directions

\* One call of lay_colours_in_subtree: whether it sends its pixel, the jobs
\* it spawns and how it ends.  receiver_gone: the writer has dropped the
\* receiving end.
VisitResult(t, receiver_gone, checked) ==
  LET index == t.pos[1] * width + t.pos[2]
      loop == SpawnLoop(1, t, Unvisited(tree[index], t.visited), GenOf(t), checked,
                        {}, FALSE)
  IN IF index \notin DOMAIN tree
       THEN [status |-> "Err", msg |-> "Index out of bounds reading from tree",
             send |-> FALSE, spawned |-> {}, overflowed |-> FALSE]
     ELSE IF receiver_gone
       THEN [status |-> "Err",
             msg |-> "Main thread closed connection before all workers finished",
             send |-> FALSE, spawned |-> {}, overflowed |-> FALSE]
     ELSE [status |-> loop.status,
           msg |-> IF loop.status = "Ok" THEN "" ELSE "panic in lay_colours_in_subtree",
           send |-> TRUE, spawned |-> loop.spawned, overflowed |-> loop.overflowed]

\* One more message counted for coordinate pos.
Record(log, pos) ==
  IF pos \in DOMAIN log THEN [log EXCEPT ![pos] = @ + 1]
  ELSE [p \in DOMAIN log \cup {pos} |-> IF p = pos THEN 1 ELSE log[p]]

\* ImageBuffer::new(width, height): every pixel zero
NewImageBuffer(w, h) == [p \in (0..(w - 1)) \X (0..(h - 1)) |-> <<0, 0, 0>>]

\* lay_colours up to the scope: the channel, the writer thread, and the
\* root call pending in the scope closure.
LayColours ==
  /\ pc = "pruned"
  /\ image' = NewImageBuffer(width, height)
  /\ bar' = 0
  /\ chan' = <<>>
  /\ writer' = "running"
  /\ tasks' = {Task(<<>>, <<start_row, start_col>>, EmptyDirs, <<0, 0, 0>>, RootGen)}
  /\ root_result' = "pending"
  /\ scope_panic' = FALSE
  /\ sent' = <<>>
  /\ pc' = "scope"
  /\ UNCHANGED <<inputVars, unitVars, spiralVars, primVars, tree, msg, build>>

\* A pending call runs.  The root call returns its Result to the scope
\* closure; a spawned job turns an Err into a panic.
Visit(t) ==
  /\ pc = "scope" /\ t \in tasks
  /\ \E b \in Builds : \E r \in {VisitResult(t, writer = "panicked", b = "debug")} :
       LET failed == r.status # "Ok"
       IN /\ build' = IF r.overflowed THEN b ELSE build
          /\ tasks' = (tasks \ {t}) \cup r.spawned
          /\ chan' = IF r.send THEN Append(chan, <<t.pos, t.colour>>) ELSE chan
          /\ sent' = IF r.send THEN Record(sent, t.pos) ELSE sent
          /\ root_result' = IF t.path # <<>> THEN root_result
                            ELSE IF r.status = "Err" THEN "Err"
                            ELSE IF r.status = "Ok" THEN "Ok"
                            ELSE root_result
          /\ scope_panic' = (scope_panic \/ r.status = "Panic"
                             \/ (t.path # <<>> /\ r.status = "Err"))
          /\ msg' = IF failed /\ msg = "" THEN r.msg ELSE msg
  /\ UNCHANGED <<inputVars, unitVars, spiralVars, primVars, tree, pc, image, bar, writer>>

\* image.put_pixel(x, y, _) panics outside the buffer.
PutPixelPanics(x, y) == ~(x \in 0..(width - 1) /\ y \in 0..(height - 1))

\* The writer thread takes one message: image.put_pixel(col, row, colour);
\* bar.inc(1).  A panic drops the receiver and what the channel holds.
WriterRecv ==
  /\ writer = "running" /\ chan # <<>>
  /\ LET m == Head(chan)
         x == m[1][2]
         y == m[1][1]
     IN IF PutPixelPanics(x, y)
        THEN /\ writer' = "panicked"
             /\ chan' = <<>>
             /\ UNCHANGED <<image, bar>>
        ELSE /\ image' = [image EXCEPT ![<<x, y>>] = m[2]]
             /\ bar' = bar + 1
             /\ chan' = Tail(chan)
             /\ writer' = writer
  /\ UNCHANGED <<inputVars, unitVars, spiralVars, primVars, tree, pc, msg, build,
                 tasks, root_result, scope_panic, sent>>

\* Fault variant of SendersDropped: the receive loop ends on an empty
\* channel instead of a disconnected one.
SendersDroppedEarly == TRUE

\* Every Sender (the root call's and each job's clone) is dropped once no
\* call is pending.
SendersDropped == tasks = {}

\* With every Sender dropped and the channel empty the receive loop ends
\* and the thread returns the image.
WriterExit ==
  /\ writer = "running" /\ chan = <<>> /\ SendersDropped
  /\ writer' = "done"
  /\ UNCHANGED <<inputVars, unitVars, spiralVars, primVars, tree, pc, msg, build,
                 tasks, chan, image, bar, root_result, scope_panic, sent>>

\* Fault variant of ScopeEnd: the Result of the scope closure and the
\* panics of the jobs are dropped.
ScopeEndIgnoringFailures ==
  /\ pc = "scope" /\ tasks = {}
  /\ pc' = "join"
  /\ UNCHANGED <<inputVars, unitVars, spiralVars, primVars, walkVars, tree, msg, build>>

\* rayon's scope returns when the closure and every spawned job have
\* finished; a panic of any of them is resumed, an Err of the root call is
\* returned with its context.
ScopeEnd ==
  /\ pc = "scope" /\ tasks = {}
  /\ pc' = IF scope_panic THEN "Panic"
           ELSE IF root_result = "Err" THEN "Err"
           ELSE "join"
  /\ UNCHANGED <<inputVars, unitVars, spiralVars, primVars, walkVars, tree, msg, build>>

\* handle.join() blocks until the writer thread has ended.
Joined == writer \in {"done", "panicked"}

\* handle.join(): the image of a writer that returned, an error for one
\* that panicked.
Join ==
  /\ pc = "join" /\ Joined
  /\ pc' = IF writer = "done" THEN "Ok" ELSE "Err"
  /\ msg' = IF writer = "done" THEN msg ELSE "Failed to join image-mutator thread"
  /\ UNCHANGED <<inputVars, unitVars, spiralVars, primVars, walkVars, tree, build>>

(***************************************************************************)
(* Initial states and specifications of the generators alone.              *)
(***************************************************************************)
\* The values the variables of the stages not yet entered hold.
Still ==
  /\ msg = "" /\ build = "any"
  /\ row = 0 /\ col = 0 /\ direction = SOUTH /\ turns = -1 /\ left = 0
  /\ possible_edges = <<>> /\ seen = <<>> /\ processed = <<>>
  /\ point_queue = <<>> /\ point_index = 0
  /\ tasks = {} /\ chan = <<>> /\ image = <<>> /\ bar = 0
  /\ writer = "none" /\ root_result = "pending" /\ scope_panic = FALSE
  /\ sent = <<>>

\* The state before a generator is called.
Idle ==
  /\ pc = "tree" /\ tree = <<>>
  /\ arg = <<>> /\ ret = <<>>
  /\ Still

\* SpiralTree.tree(width, height) for every grid up to MaxSpiralDim.
InitSpiral ==
  /\ width \in 1..MaxSpiralDim /\ height \in 1..MaxSpiralDim
  /\ tree_gen = "Spiral" /\ colour_gen = "Test"
  /\ step_size = 10 /\ seed = 0
  /\ start_row = 0 /\ start_col = 0
  /\ weights = "image"
  /\ initial_points = <<0>>
  /\ Idle

\* PrimTree.tree(width, height) as new_image configures it, for every grid
\* of at most MaxPrimOnlyCells cells and every start point, and with a
\* weight closure that is zero everywhere.
InitPrim ==
  /\ width \in 1..MaxPrimOnlyCells /\ height \in 1..MaxPrimOnlyCells
  /\ width * height <= MaxPrimOnlyCells
  /\ tree_gen = "Prim" /\ colour_gen = "Test"
  /\ step_size = 10 /\ seed = 0
  /\ start_row \in 0..width /\ start_col \in 0..height
  /\ weights \in {"image", "zero"}
  /\ initial_points = <<(width * start_col) + start_row>>
  /\ Idle

vars == <<inputVars, pc, msg, build, tree, spiralVars, primVars, walkVars,
          unitVars>>

\* new_image for every grid up to MaxDim, every start point and generator;
\* the Prim generator on grids of at most MaxPrimCells cells.
StepSizes == {0, 10}
Seeds == {7}

Init ==
  /\ width \in 1..MaxDim /\ height \in 1..MaxDim
  /\ width * height <= MaxCells
  /\ tree_gen \in {"Test", "Spiral", "Prim"}
  /\ tree_gen = "Prim" => width * height <= MaxPrimCells
  /\ colour_gen \in {"Test", "Rand"}
  /\ step_size \in StepSizes /\ seed \in Seeds
  /\ colour_gen = "Test" => step_size = 10
  /\ start_row \in 0..width /\ start_col \in 0..height
  /\ weights = "image"
  /\ initial_points = <<(width * start_col) + start_row>>
  /\ Idle

NextSpiral == SpiralStart \/ SpiralTest \/ SpiralStep \/ SpiralTurn
SpecSpiral == InitSpiral /\ [][NextSpiral]_vars

NextPrim == PrimStart \/ PrimDone \/ PrimPop \/ PrimDraw \/ PrimReview
SpecPrim == InitPrim /\ [][NextPrim]_vars

Next ==
  \/ TestTree
  \/ SpiralStart \/ SpiralTest \/ SpiralStep \/ SpiralTurn
  \/ PrimStart \/ PrimDone \/ PrimPop \/ PrimDraw \/ PrimReview
  \/ Prune
  \/ LayColours
  \/ \E t \in tasks : Visit(t)
  \/ WriterRecv \/ WriterExit
  \/ ScopeEnd \/ Join

Spec == Init /\ [][Next]_vars

(***************************************************************************)
(* Fair specifications: the program keeps running while a step is          *)
(* possible (the sequential generators), and rayon's pool and the OS run   *)
(* every pending job and the writer thread.                                *)
(***************************************************************************)
FairSpec == Spec /\ WF_vars(Next)

FairSpecPrim == SpecPrim /\ WF_vars(NextPrim)

(***************************************************************************)
(* PrimTree::tree called with any list of distinct in-range initial        *)
(* points (the field initial_points of the struct).                        *)
(***************************************************************************)
\* The lists of k distinct cell indexes of a grid of n cells, k from 1 to
\* MaxSeeds.
SeedLists(n) ==
  {points \in UNION {[1..k -> 0..(n - 1)] : k \in 1..MaxSeeds} :
     \A i, j \in DOMAIN points : i # j => points[i] # points[j]}

InitPrimSeeds ==
  /\ width \in 1..MaxPrimOnlyCells /\ height \in 1..MaxPrimOnlyCells
  /\ width * height <= MaxPrimOnlyCells
  /\ tree_gen = "Prim" /\ colour_gen = "Test"
  /\ step_size = 10 /\ seed = 0
  /\ start_row = 0 /\ start_col = 0
  /\ weights \in {"image", "zero"}
  /\ initial_points \in SeedLists(width * height)
  /\ Idle

SpecPrimSeeds == InitPrimSeeds /\ [][NextPrim]_vars

(***************************************************************************)
(* Functions studied on their own: rand_channel, TestGen::colour and       *)
(* prune_edges, each called on every input of a bounded set.               *)
(***************************************************************************)
\* u8::MAX
U8Max == 255

\* The arguments of new_image where the function studied reads none.
NoCli ==
  /\ width = 1 /\ height = 1
  /\ tree_gen = "Test" /\ colour_gen = "Test"
  /\ step_size = 10 /\ seed = 0
  /\ start_row = 0 /\ start_col = 0
  /\ weights = "image"
  /\ initial_points = <<0>>

\* self.rand_channel(old, step_size) for every pair of bytes.
InitChannel ==
  /\ arg \in (0..U8Max) \X (0..U8Max)
  /\ ret = {}
  /\ pc = "rand_channel" /\ tree = <<>>
  /\ NoCli /\ Still

\* The call: every result it can give, one for each raw sample of the rng.
RandChannelCall ==
  /\ pc = "rand_channel"
  /\ ret' = {RandChannel(arg[1], arg[2], r) : r \in 0..U8Max}
  /\ pc' = "rand_channel_done"
  /\ UNCHANGED <<inputVars, arg, msg, build, tree, spiralVars, primVars, walkVars>>

SpecChannel == InitChannel /\ [][RandChannelCall]_vars

\* TestGen.colour applied again and again, from black: arg counts the
\* applications, ret is the colour reached.
InitTestColour ==
  /\ arg = 0
  /\ ret = <<0, 0, 0>>
  /\ pc = "test_colour" /\ tree = <<>>
  /\ NoCli /\ Still

TestColourCall ==
  /\ pc = "test_colour" /\ arg < MaxApplications
  /\ \E direction_into \in Range(DIRECTIONS) :
       ret' = Colour([kind |-> "Test", step_size |-> 0, rng |-> 0], ret,
                     direction_into).colour
  /\ arg' = arg + 1
  /\ UNCHANGED <<inputVars, pc, msg, build, tree, spiralVars, primVars, walkVars>>

SpecTestColour == InitTestColour /\ [][TestColourCall]_vars

\* The direction sets the cells of a grid handed to prune_edges hold.
CellValues ==
  {EmptyDirs, AllDirs, NORTH \cup EAST \cup SOUTHWEST \cup NORTHWEST,
   SOUTH \cup WEST \cup NORTHEAST \cup SOUTHEAST}

\* prune_edges(width, height, _, &mut grid) for every grid of at most
\* MaxPruneCells cells over CellValues, an empty dimension included; arg
\* keeps the grid as it was handed over.
InitPrune ==
  /\ width \in 0..MaxPruneCells /\ height \in 0..MaxPruneCells
  /\ width * height <= MaxPruneCells
  /\ tree \in [0..(width * height - 1) -> CellValues]
  /\ arg = tree
  /\ ret = <<>>
  /\ pc = "tree_done"
  /\ tree_gen = "Test" /\ colour_gen = "Test"
  /\ step_size = 10 /\ seed = 0
  /\ start_row = 0 /\ start_col = 0
  /\ weights = "image"
  /\ initial_points = <<0>>
  /\ Still

\* prune_edges called once more on the grid it has pruned.
PruneAgain ==
  /\ pc = "pruned"
  /\ \E b \in Builds :
       /\ build' = IF PruneOverflows(width, height) THEN b ELSE build
       /\ ret' = PruneEdges(width, height, tree, b = "debug")
  /\ pc' = "pruned_again"
  /\ UNCHANGED <<inputVars, arg, msg, tree, spiralVars, primVars, walkVars>>

NextPrune == Prune \/ PruneAgain
SpecPrune == InitPrune /\ [][NextPrune]_vars

(***************************************************************************)
(* The methods of Neighbours called on their own, on every one of the 256  *)
(* values of the type.                                                     *)
(***************************************************************************)
\* Every value of Neighbours: every set of bit positions.
Values == SUBSET (0..7)

\* The coordinates the methods are called with.
Coordinates == (0..MaxPos) \X (0..MaxPos)

InitDirs ==
  /\ arg \in [op : {"reverse", "iter"}, self : Values]
           \cup [op : {"step", "round_trip"}, self : Values, pos : Coordinates]
           \cup [op : {"rotate"}, self : Values, places : 0..MaxPlaces]
           \cup [op : {"random_direction"}, self : Values,
                 wm : {"image", "vertical", "zero"}, point : Coordinates]
  /\ ret = <<>>
  /\ pc = "call" /\ tree = <<>>
  /\ NoCli /\ Still

\* The variables a call of a method leaves alone.
callFrame == <<inputVars, msg, build, tree, spiralVars, primVars, walkVars>>

\* self.reverse(), and the reverse of its result where it has one.
ReverseCall ==
  /\ pc = "call" /\ arg.op = "reverse"
  /\ ret' = [once |-> Reverse(arg.self),
             twice |-> IF Reverse(arg.self) = None THEN None
                       ELSE Reverse(Reverse(arg.self))]
  /\ pc' = "returned"
  /\ UNCHANGED <<callFrame, arg>>

\* self.step(pos) and self.step_usize(pos); overflow: the call leaves the
\* unsigned range (a panic, or a wrapped coordinate carried as -1).
StepCall ==
  /\ pc = "call" /\ arg.op = "step"
  /\ ret' = [step |-> Step(arg.self, arg.pos),
             step_usize |-> StepUsize(arg.self, arg.pos),
             overflow |-> StepOverflows(arg.self, arg.pos)]
  /\ pc' = "returned"
  /\ UNCHANGED <<callFrame, arg>>

\* self.step(pos) followed, where self has a reverse, by the step back:
\* self.reverse().step(self.step(pos)).
RoundTripCall ==
  /\ pc = "call" /\ arg.op = "round_trip"
  /\ ret' = [there |-> Step(arg.self, arg.pos),
             back |-> IF Reverse(arg.self) = None THEN None
                      ELSE Step(Reverse(arg.self), Step(arg.self, arg.pos))]
  /\ pc' = "returned"
  /\ UNCHANGED <<callFrame, arg>>

\* self.rotate_left(places), self.rotate_right(places) and the compositions
\* the spiral relies on.
RotateCall ==
  /\ pc = "call" /\ arg.op = "rotate"
  /\ ret' = [left |-> RotateLeft(arg.self, arg.places),
             right |-> RotateRight(arg.self, arg.places),
             left_right |-> RotateRight(RotateLeft(arg.self, arg.places), arg.places),
             right_left |-> RotateLeft(RotateRight(arg.self, arg.places), arg.places)]
  /\ pc' = "returned"
  /\ UNCHANGED <<callFrame, arg>>

\* self.random_direction(rng, weight): every result the draw can give.
RandomDirectionCall ==
  /\ pc = "call" /\ arg.op = "random_direction"
  /\ ret' = RandomDirection(arg.self, arg.wm, arg.point)
  /\ pc' = "returned"
  /\ UNCHANGED <<callFrame, arg>>

\* One call of Iterator::next: arg.self is the iterator (what is left of
\* the set), ret the items yielded so far.
IterStart ==
  /\ pc = "call" /\ arg.op = "iter"
  /\ arg' = [op |-> "iter", self |-> arg.self, from |-> arg.self]
  /\ pc' = "iterating"
  /\ UNCHANGED <<callFrame, ret>>

IterStep ==
  /\ pc = "iterating"
  /\ IF IterNext(arg.self) = None
     THEN /\ pc' = "returned"
          /\ UNCHANGED <<arg, ret>>
     ELSE /\ ret' = Append(ret, IterNext(arg.self))
          /\ arg' = [arg EXCEPT !.self = @ \ IterNext(arg.self)]
          /\ pc' = pc
  /\ UNCHANGED callFrame

NextDirs ==
  \/ ReverseCall \/ StepCall \/ RoundTripCall \/ RotateCall \/ RandomDirectionCall
  \/ IterStart \/ IterStep
SpecDirs == InitDirs /\ [][NextDirs]_vars

(***************************************************************************)
(* The unchecked index arithmetic: `width * height` of the three tree      *)
(* generators and of lay_colours, and `root_row * width + root_col` of     *)
(* lay_colours_in_subtree.  A word is a u32 (the usize of a 32-bit         *)
(* target), held as <<high half, low half>> so that the full product is    *)
(* computed exactly.                                                       *)
(***************************************************************************)
\* 2^16: the weight of the high half of a u32.
HalfWord == 65536

\* The product of two halves, as a word.  b is split once more to keep the
\* partial products small.
MulHalf(a, b) ==
  LET t == a * (b % 256)
      u == a * (b \div 256)
  IN <<(u + (t \div 256)) \div 256, (((u % 256) * 256) + t) % HalfWord>>

\* u32::overflowing_mul: the wrapped product and whether it overflowed.
OverflowingMul(a, b) ==
  LET ll == MulHalf(a[2], b[2])
      lh == MulHalf(a[2], b[1])
      hl == MulHalf(a[1], b[2])
      hh == MulHalf(a[1], b[1])
      mid == ll[1] + lh[2] + hl[2]
  IN [value |-> <<mid % HalfWord, ll[2]>>,
      overflow |-> (mid \div HalfWord) + lh[1] + hl[1] + hh[1] + hh[2] > 0]

\* u32::overflowing_add
OverflowingAdd(a, b) ==
  LET lo == a[2] + b[2]
      hi == a[1] + b[1] + (lo \div HalfWord)
  IN [value |-> <<hi % HalfWord, lo % HalfWord>>,
      overflow |-> hi \div HalfWord > 0]

\* `let num_pixels = width * height;`: a panic where overflow is checked,
\* the wrapped product where it is not; the function goes on either way
\* without an Err.
NumPixels(w, h, checked) ==
  LET product == OverflowingMul(w, h)
  IN [status |-> IF checked /\ product.overflow THEN "Panic" ELSE "Ok",
      value |-> product.value,
      overflow |-> product.overflow]

\* `let index = root_row * width + root_col;`
FlatIndex(root_row, w, root_col, checked) ==
  LET product == OverflowingMul(root_row, w)
      sum == OverflowingAdd(product.value, root_col)
  IN [status |-> IF checked /\ (product.overflow \/ sum.overflow)
                 THEN "Panic" ELSE "Ok",
      value |-> sum.value,
      overflow |-> product.overflow \/ sum.overflow]

\* The words the arithmetic is called with: small ones, the halves' limits
\* and the largest.
Words == {<<0, 0>>, <<0, 1>>, <<0, 3>>, <<0, HalfWord - 1>>, <<1, 0>>,
          <<HalfWord - 1, HalfWord - 1>>}

InitProduct ==
  /\ arg \in [op : {"num_pixels"}, width : Words, height : Words]
           \cup [op : {"index"}, root_row : Words, width : Words, root_col : Words]
  /\ ret = <<>>
  /\ pc = "call" /\ tree = <<>>
  /\ NoCli /\ Still

NumPixelsCall ==
  /\ pc = "call" /\ arg.op = "num_pixels"
  /\ \E b \in Builds : \E r \in {NumPixels(arg.width, arg.height, b = "debug")} :
       /\ build' = IF r.overflow THEN b ELSE build
       /\ ret' = r
  /\ pc' = "returned"
  /\ UNCHANGED <<inputVars, msg, tree, spiralVars, primVars, walkVars, arg>>

FlatIndexCall ==
  /\ pc = "call" /\ arg.op = "index"
  /\ \E b \in Builds :
       \E r \in {FlatIndex(arg.root_row, arg.width, arg.root_col, b = "debug")} :
         /\ build' = IF r.overflow THEN b ELSE build
         /\ ret' = r
  /\ pc' = "returned"
  /\ UNCHANGED <<inputVars, msg, tree, spiralVars, primVars, walkVars, arg>>

NextProduct == NumPixelsCall \/ FlatIndexCall
SpecProduct == InitProduct /\ [][NextProduct]_vars

(***************************************************************************)
(* lay_colours called on any symmetric, in-bounds adjacency grid, with or  *)
(* without cycles, from a root inside the grid.  The chains of calls are   *)
(* followed to MaxDepth; a call at that depth stays pending.               *)
(***************************************************************************)
\* The flattened index of the cell direction d leads to from cell i of a
\* grid w wide.
Neighbour(i, d, w) ==
  StepUsize(d, PointOf(i, w))[1] * w + StepUsize(d, PointOf(i, w))[2]

\* The edges a w x h grid can have, each named once: by a cell and a
\* direction of the eastern or southern half leading to a cell of the grid.
GridEdges(w, h) ==
  {e \in (0..(w * h - 1)) \X {EAST, SOUTHEAST, SOUTH, SOUTHWEST} :
     StepUsize(e[2], PointOf(e[1], w)) \in (0..(h - 1)) \X (0..(w - 1))}

\* The adjacency grid holding the edges chosen, each at both of its ends.
GridOf(chosen, w, h) ==
  [i \in 0..(w * h - 1) |->
     UNION ({e[2] : e \in {c \in chosen : c[1] = i}}
            \cup {Reverse(e[2]) : e \in {c \in chosen : Neighbour(c[1], c[2], w) = i}})]

InitCycle ==
  /\ width = 2 /\ height = 2
  /\ tree_gen = "Test" /\ colour_gen \in {"Test", "Rand"}
  /\ step_size \in StepSizes /\ seed \in Seeds
  /\ colour_gen = "Test" => step_size = 10
  /\ start_row \in 0..(height - 1) /\ start_col \in 0..(width - 1)
  /\ weights = "image" /\ initial_points = <<0>>
  /\ pc = "pruned"
  /\ tree \in {GridOf(chosen, width, height) :
                chosen \in {c \in SUBSET GridEdges(width, height) :
                              Cardinality(c) <= MaxCycleEdges}}
  /\ arg = <<>> /\ ret = <<>>
  /\ Still

\* A pending call runs, if it is less than MaxDepth calls from the root.
VisitToDepth ==
  \E t \in tasks : Len(t.path) < MaxDepth /\ Visit(t)

NextCycle ==
  \/ LayColours \/ VisitToDepth \/ WriterRecv \/ WriterExit \/ ScopeEnd \/ Join
SpecCycle == InitCycle /\ [][NextCycle]_vars

(***************************************************************************)
(* Vocabulary of the properties.                                           *)
(***************************************************************************)
\* The coordinates (row, col) of the grid.
Cells == (0..(height - 1)) \X (0..(width - 1))

InGrid(pos) == pos \in Cells

\* The stages of new_image after prune_edges has returned Ok.
AfterPrune == {"pruned", "scope", "join", "Ok"}

\* The undirected edges of a grid: the pairs of cell indexes joined by a
\* direction one of them holds.
EdgesOf(grid) ==
  {{id[1], Index(StepUsize(id[2], PointOf(id[1], width))[1],
                 StepUsize(id[2], PointOf(id[1], width))[2], width)} :
     id \in {x \in (DOMAIN grid) \X Singles :
               /\ Contains(grid[x[1]], x[2])
               /\ InGrid(StepUsize(x[2], PointOf(x[1], width)))}}

\* The number of directions a cell holds.
Degree(grid, i) == Cardinality(grid[i])

\* The cells reachable from the set `from` along the edges of grid.
RECURSIVE ReachFrom(_, _)
ReachFrom(grid, from) ==
  LET more == from \cup {j \in DOMAIN grid :
                 \E e \in EdgesOf(grid) : j \in e /\ e \cap from # {}}
  IN IF more = from THEN from ELSE ReachFrom(grid, more)

\* The root coordinate new_image hands to lay_colours.
Root == <<start_row, start_col>>

\* The colourer has ended: no call is pending and the scope has returned.
WalkEnded == pc \in {"join", "Ok", "Err", "Panic"} /\ tasks = {}

\* The total number of messages sent.
RECURSIVE SumOver(_, _)
SumOver(f, dom) ==
  IF dom = {} THEN 0
  ELSE LET x == CHOOSE x \in dom : TRUE IN f[x] + SumOver(f, dom \ {x})

Sends == SumOver(sent, DOMAIN sent)

(***************************************************************************)
(* C1: whenever the tree generator has succeeded and the root is in        *)
(* bounds, the walk of lay_colours sends exactly width*height messages,    *)
(* one for every cell of the grid and none twice.                          *)
(* Stated as the claim states it; the colour generator is not restricted.  *)
(***************************************************************************)
C1_OneMessagePerCell ==
  (WalkEnded /\ writer # "none" /\ InGrid(Root)) =>
     /\ DOMAIN sent = Cells
     /\ \A p \in DOMAIN sent : sent[p] = 1
     /\ Sends = width * height

\* The same for the runs in which no colour computation panics: the Test
\* colour generator, or the Rand generator with a non-zero step size.
C1_OneMessagePerCellNoPanic ==
  (colour_gen = "Rand" => step_size > 0) => C1_OneMessagePerCell

(***************************************************************************)
(* C2: in the state where lay_colours returns Ok, no call is pending, the  *)
(* channel is empty, and the number of put_pixel writes equals the number  *)
(* of messages sent, which is width*height.                                *)
(***************************************************************************)
C2_ReturnsAfterAllWrites ==
  pc = "Ok" =>
     /\ tasks = {} /\ chan = <<>> /\ writer = "done"
     /\ bar = Sends
     /\ Sends = width * height

C2_Witness ==
  pc = "Ok" /\ width = 3 /\ height = 3 /\ bar = 9 /\ tree_gen = "Test"

(***************************************************************************)
(* C3: under fair scheduling, colouring started from an in-bounds root     *)
(* eventually completes: every pending call ends, every Sender is dropped, *)
(* the writer's receive loop ends and lay_colours returns (Ok or Err).     *)
(* Stated as the claim states it; the colour generator is not restricted.  *)
(***************************************************************************)
C3_LayColoursReturns ==
  (pc = "scope" /\ InGrid(Root)) ~> (pc \in {"Ok", "Err"} /\ tasks = {})

\* What does hold under fair scheduling: the colourer always ends, without
\* deadlock between the calls, the channel and the writer (lay_colours is
\* left with Ok, with Err, or by a resumed panic), and from an in-bounds
\* root with no panic of the colour generator it returns Ok.
C3_ColouringCompletes ==
  /\ (pc = "scope") ~> (/\ pc \in {"Ok", "Err", "Panic"}
                         /\ tasks = {} /\ chan = <<>>
                         /\ writer \in {"done", "panicked"})
  /\ (pc = "scope" /\ InGrid(Root) /\ (colour_gen = "Rand" => step_size > 0))
        ~> (pc = "Ok")

(***************************************************************************)
(* C4: the buffer lay_colours returns is the one the sequential walk of    *)
(* the same tree computes: every pixel holds the colour obtained by        *)
(* handing the colour and the generator state down the path from the root, *)
(* whatever the interleaving of the jobs and of the writer.                *)
(***************************************************************************)
\* The (coordinate, colour) pairs of the subtree of call t, computed by
\* recursion on the tree with the state each call is handed.
RECURSIVE RefPixels(_)
RefPixels(t) ==
  LET index == t.pos[1] * width + t.pos[2]
      jobs == SpawnLoop(1, t, Unvisited(tree[index], t.visited), t.gen, FALSE,
                        {}, FALSE).spawned
  IN {<<t.pos, t.colour>>} \cup UNION {RefPixels(j) : j \in jobs}

RootTask == Task(<<>>, Root, EmptyDirs, <<0, 0, 0>>, RootGen)

C4_ScheduleIndependent ==
  pc = "Ok" =>
     \A xy \in DOMAIN image :
        \A pc2 \in RefPixels(RootTask) :
           pc2[1] = <<xy[2], xy[1]>> => image[xy] = pc2[2]

C4_Witness ==
  /\ pc = "Ok" /\ colour_gen = "Rand" /\ width * height >= 6
  /\ \E i \in DOMAIN tree : Degree(tree, i) >= 3
  /\ \E xy \in DOMAIN image : image[xy] # <<0, 0, 0>>

(***************************************************************************)
(* C5: the grid PrimTree::tree returns for a single in-range seed and      *)
(* positive weights has exactly width*height - 1 undirected edges, and     *)
(* every cell is reachable from the seed along them.                       *)
(***************************************************************************)
C5_PrimSpanningTree ==
  (pc = "tree_done" /\ weights = "image") =>
     /\ Cardinality(EdgesOf(tree)) = width * height - 1
     /\ ReachFrom(tree, {initial_points[1]}) = DOMAIN tree

C5_Witness ==
  /\ pc = "tree_done" /\ weights = "image" /\ width = 2 /\ height = 2
  /\ \E i \in DOMAIN tree : Contains(tree[i], SOUTHEAST)

(***************************************************************************)
(* C6: the grid SpiralTree::tree returns is one simple path through all    *)
(* cells: every cell has degree at most 2, there are width*height - 1      *)
(* undirected edges, every cell is reachable from cell 0, and with more    *)
(* than one cell exactly two cells have degree 1.                          *)
(***************************************************************************)
C6_SpiralSimplePath ==
  pc = "tree_done" =>
     /\ \A i \in DOMAIN tree : Degree(tree, i) <= 2
     /\ Cardinality(EdgesOf(tree)) = width * height - 1
     /\ ReachFrom(tree, {0}) = DOMAIN tree
     /\ width * height > 1 =>
           Cardinality({i \in DOMAIN tree : Degree(tree, i) = 1}) = 2

C6_Witness ==
  pc = "tree_done" /\ width = 4 /\ height = 4 /\ turns > 4

(***************************************************************************)
(* C7: for every width, height >= 1 SpiralTree::tree ends with a grid: no  *)
(* leg length goes below zero, the walker stays inside the grid, and the   *)
(* function neither panics nor returns an error.                           *)
(***************************************************************************)
C7_SpiralAlwaysSucceeds ==
  /\ pc \notin {"Err", "Panic"}
  /\ left >= 0
  /\ InGrid(<<row, col>>)

(***************************************************************************)
(* C8: after prune_edges, for every cell c and every single direction d in *)
(* c's set, step(d, c) is a cell of the grid whose set holds reverse(d).   *)
(***************************************************************************)
C8_EdgeSymmetry ==
  pc \in AfterPrune =>
     \A i \in DOMAIN tree : \A d \in Singles :
        Contains(tree[i], d) =>
           LET to == StepUsize(d, PointOf(i, width))
           IN /\ InGrid(to)
              /\ Contains(tree[Index(to[1], to[2], width)], Reverse(d))

C8_Witness ==
  /\ pc \in AfterPrune /\ tree_gen = "Prim" /\ width = 2 /\ height = 2
  /\ Contains(tree[0], SOUTHEAST) /\ Contains(tree[3], NORTHWEST)

(***************************************************************************)
(* C9: after prune_edges no cell holds a direction that leaves the grid:   *)
(* row 0 holds no N/NE/NW, row height-1 no S/SE/SW, column 0 no W/NW/SW,   *)
(* column width-1 no E/NE/SE.                                              *)
(***************************************************************************)
C9_NoDirectionLeavesGrid ==
  pc \in AfterPrune =>
     \A i \in DOMAIN tree :
        LET at == PointOf(i, width)
        IN /\ at[1] = 0 => tree[i] \cap NORTHWARD = {}
           /\ at[1] = height - 1 => tree[i] \cap SOUTHWARD = {}
           /\ at[2] = 0 => tree[i] \cap WESTWARD = {}
           /\ at[2] = width - 1 => tree[i] \cap EASTWARD = {}
           /\ \A d \in Singles : Contains(tree[i], d) => InGrid(Step(d, at))

C9_Witness ==
  /\ pc \in AfterPrune /\ tree_gen = "Test" /\ width = 3 /\ height = 3
  /\ tree[0] = SOUTH /\ tree[4] = AllDirs \ (NORTHEAST \cup SOUTHEAST \cup SOUTHWEST \cup NORTHWEST)

(***************************************************************************)
(* C10: with an in-range seed and positive weights PrimTree::tree ends,    *)
(* whatever the random choices: the queue becomes empty, and then every    *)
(* cell is marked processed.                                               *)
(***************************************************************************)
C10_PrimTerminates ==
  /\ (pc = "prim_loop" /\ weights = "image") ~> (pc = "tree_done")
  /\ [](pc = "tree_done" =>
          /\ point_queue = <<>>
          /\ \A i \in DOMAIN processed : processed[i])

C10_Witness ==
  /\ pc = "tree_done" /\ weights = "image" /\ width * height = 4
  /\ point_queue = <<>> /\ \A i \in DOMAIN processed : processed[i]


(***************************************************************************)
(* C11: when the weight closure gives zero for every direction of the      *)
(* popped cell's non-empty set of available edges, PrimTree::tree returns  *)
(* an error: the step taken at the head of the draw loop ends the function *)
(* with Err, it neither goes on to the review of the cell nor requeues it. *)
(***************************************************************************)
C11_ZeroWeightsIsError ==
  [][(/\ pc = "prim_draw"
      /\ point_index \in DOMAIN possible_edges
      /\ possible_edges[point_index] # EmptyDirs
      /\ \A d \in Singles :
            Weights(weights, PointOf(point_index, width), d) = 0)
       => pc' = "Err"]_vars


(***************************************************************************)
(* C12: for every old channel value and every step_size in 0..255,         *)
(* rand_channel returns without panicking a value between                  *)
(* old.saturating_sub(step_size) and old.saturating_add(step_size).        *)
(***************************************************************************)
C12_RandChannelInRange ==
  pc = "rand_channel_done" =>
     \A out \in ret :
        /\ ~out.panic
        /\ SaturatingSub(arg[1], arg[2]) <= out.value
        /\ out.value <= SaturatingAdd(arg[1], arg[2])

(***************************************************************************)
(* C13: from (0,0,0) the n-th application of TestGen::colour gives         *)
(* (n,0,0) up to n = 255, then (255,n-255,0) up to n = 510, then           *)
(* (255,255,n-510) up to n = 765, and (0,0,0) at n = 766: the sequence has *)
(* period 766, whatever the direction argument, and every channel stays a  *)
(* byte.                                                                   *)
(***************************************************************************)
C13_TestColourCycle ==
  pc = "test_colour" =>
     LET n == arg % 766
     IN /\ ret = (IF n <= 255 THEN <<n, 0, 0>>
                  ELSE IF n <= 510 THEN <<255, n - 255, 0>>
                  ELSE <<255, 255, n - 510>>)
        /\ \A k \in 1..3 : ret[k] \in 0..U8Max

C13_Witness ==
  pc = "test_colour" /\ arg = 766 /\ ret = <<0, 0, 0>>

(***************************************************************************)
(* C15: on a grid with width, height >= 1 prune_edges succeeds and takes   *)
(* from every cell exactly the bits of its borders: NORTHWARD in row 0,    *)
(* SOUTHWARD in row height-1, WESTWARD in column 0, EASTWARD in column     *)
(* width-1; every other bit of every cell is as it was.                    *)
(***************************************************************************)
C15_PruneRemovesExactlyBorderBits ==
  (pc \in {"pruned", "Err", "Panic"} /\ width >= 1 /\ height >= 1) =>
     /\ pc = "pruned"
     /\ DOMAIN tree = DOMAIN arg
     /\ \A i \in DOMAIN tree :
          LET r == i \div width
              c == i % width
              gone == (IF r = 0 THEN NORTHWARD ELSE {})
                        \cup (IF r = height - 1 THEN SOUTHWARD ELSE {})
                        \cup (IF c = 0 THEN WESTWARD ELSE {})
                        \cup (IF c = width - 1 THEN EASTWARD ELSE {})
          IN tree[i] = arg[i] \ gone

C15_Witness ==
  /\ pc = "pruned" /\ width = 2 /\ height = 2
  /\ arg[0] = AllDirs /\ tree[0] = EAST \cup SOUTHEAST \cup SOUTH
  /\ arg[3] = AllDirs /\ tree[3] = NORTH \cup WEST \cup NORTHWEST

(***************************************************************************)
(* C16: prune_edges applied to a grid it has already pruned succeeds and   *)
(* leaves every cell as it is.                                             *)
(***************************************************************************)
C16_PruneIdempotent ==
  (pc = "pruned_again" /\ width >= 1 /\ height >= 1) =>
     ret.status = "Ok" /\ ret.grid = tree

C16_Witness ==
  /\ pc = "pruned_again" /\ width = 2 /\ height = 2
  /\ \A i \in DOMAIN arg : arg[i] = AllDirs
  /\ ret.grid = tree /\ tree # arg

(***************************************************************************)
(* C17: with width = 0 or height = 0 (an empty grid with both 0 included)  *)
(* prune_edges never returns Ok.                                           *)
(***************************************************************************)
C17_PruneRejectsEmptyDimension ==
  (width = 0 \/ height = 0) => pc \notin {"pruned", "pruned_again"}


(***************************************************************************)
(* C14: the grid TestGen::tree returns holds exactly {N, S, E, W} in every *)
(* cell of row floor(height/2) and exactly {N, S} in every other cell; on  *)
(* the 3x3 grid cell (0,0) holds exactly {S} after prune_edges.            *)
(***************************************************************************)
C14_TestTreeShape ==
  /\ (pc = "tree_done" /\ tree_gen = "Test") =>
        /\ DOMAIN tree = 0..(width * height - 1)
        /\ \A i \in DOMAIN tree :
              tree[i] = (IF i \div width = height \div 2
                         THEN NORTH \cup SOUTH \cup EAST \cup WEST
                         ELSE NORTH \cup SOUTH)
  /\ (pc = "pruned" /\ tree_gen = "Test" /\ width = 3 /\ height = 3) =>
        tree[0] = SOUTH

C14_Witness ==
  /\ pc = "pruned" /\ tree_gen = "Test" /\ width = 3 /\ height = 3
  /\ tree[0] = SOUTH /\ tree[3] = NORTH \cup SOUTH \cup EAST
  /\ tree[8] = NORTH


(***************************************************************************)
(* C18: no pixel is emitted for a coordinate outside the grid: every       *)
(* coordinate (row, col) a message was sent for has row < height and       *)
(* col < width, also when row*width + col is below width*height.           *)
(***************************************************************************)
C18_OutOfRangeVisitRejected ==
  \A p \in DOMAIN sent : InGrid(p)


(***************************************************************************)
(* C19: lay_colours returns Ok only from a walk none of whose visits has   *)
(* failed: when a visit failed (the root's or a spawned job's: tree lookup *)
(* out of range, send rejected, panic), msg holds its error, and then      *)
(* lay_colours is not left with Ok; and the buffer returned with Ok has    *)
(* had every pixel written.                                                *)
(***************************************************************************)
C19_FailFast ==
  /\ (msg # "" \/ scope_panic \/ root_result = "Err") => pc # "Ok"
  /\ pc = "Ok" => (bar = width * height /\ DOMAIN sent = Cells)

C19_Witness ==
  /\ pc \in {"Err", "Panic"} /\ tasks = {} /\ writer = "panicked"
  /\ msg = "Main thread closed connection before all workers finished"


(***************************************************************************)
(* C20: during colouring every generator state is held by exactly one      *)
(* task: no two pending calls of lay_colours_in_subtree hold equal states  *)
(* of the random colour generator.                                         *)
(***************************************************************************)
C20_GeneratorStatesExclusive ==
  colour_gen = "Rand" =>
     \A t1, t2 \in tasks : t1 # t2 => t1.gen # t2.gen


(***************************************************************************)
(* The methods of Neighbours (SpecDirs).                                   *)
(***************************************************************************)
\* A call of the method op has returned.
Returned(op) == pc = "returned" /\ arg.op = op

\* C23: Neighbours::reverse is defined exactly on the eight single
\* directions, where it gives the opposite direction and reversing twice
\* gives the direction back; on the empty value and on every value of two
\* or more bits (the composite masks included) it gives None.
C23_ReverseInvolution ==
  Returned("reverse") =>
    IF arg.self \in Singles
    THEN /\ ret.once \in Singles
         /\ \A b \in arg.self : ret.once = {(b + 4) % 8}
         /\ ret.twice = arg.self
    ELSE ret.once = None /\ ret.twice = None

C23_Witness ==
  /\ Returned("reverse") /\ arg.self = NORTHEAST
  /\ ret.once = SOUTHWEST /\ ret.twice = NORTHEAST

\* The change of a coordinate the claim gives for a direction: towards
\* -1 for the members of minus, +1 for the members of plus, else 0.
Delta(d, minus, plus) ==
  IF Contains(minus, d) THEN -1 ELSE IF Contains(plus, d) THEN 1 ELSE 0

\* C24: for every single direction and every coordinate, step returns the
\* coordinate moved by -1/0/+1 in the row (N, NE, NW / E, W / S, SE, SW) and
\* in the column (W, NW, SW / N, S / E, NE, SE) without leaving the unsigned
\* range, and step_usize returns the same.
C24_StepDeltas ==
  (Returned("step") /\ arg.self \in Singles) =>
    /\ ~ret.overflow
    /\ ret.step = <<arg.pos[1] + Delta(arg.self, NORTHWARD, SOUTHWARD),
                    arg.pos[2] + Delta(arg.self, WESTWARD, EASTWARD)>>
    /\ ret.step_usize = ret.step

\* What holds of step: the deltas of C24 wherever the move stays in range.
C24_StepDeltasInRange ==
  (Returned("step") /\ arg.self \in Singles /\ ~ret.overflow) =>
    /\ ret.step = <<arg.pos[1] + Delta(arg.self, NORTHWARD, SOUTHWARD),
                    arg.pos[2] + Delta(arg.self, WESTWARD, EASTWARD)>>
    /\ ret.step_usize = ret.step
    /\ ret.step[1] >= 0 /\ ret.step[2] >= 0

\* C25: rotate_left(n) and rotate_right(n) are inverse rotations of the
\* eight bits for every n; a rotation by 8 places is the identity; and
\* rotate_left(2) takes S to E, E to N, N to W and W to S.
C25_RotationsInverse ==
  Returned("rotate") =>
    /\ ret.left_right = arg.self
    /\ ret.right_left = arg.self
    /\ Cardinality(ret.left) = Cardinality(arg.self)
    /\ arg.places = 8 => (ret.left = arg.self /\ ret.right = arg.self)
    /\ arg.places = 2 =>
         /\ arg.self = SOUTH => ret.left = EAST
         /\ arg.self = EAST => ret.left = NORTH
         /\ arg.self = NORTH => ret.left = WEST
         /\ arg.self = WEST => ret.left = SOUTH

C25_Witness ==
  /\ Returned("rotate") /\ arg.places = 2 /\ arg.self = SOUTH
  /\ ret.left = EAST /\ ret.right = WEST /\ ret.left_right = SOUTH

\* C26: rotate_left and rotate_right return None when the value is empty
\* or has more than one bit.
C26_RotateRejectsNonSingle ==
  (Returned("rotate") /\ arg.self \notin Singles) =>
    (ret.left = None /\ ret.right = None)

\* C27: random_direction returns an error when the value is empty and when
\* every member has weight 0; otherwise every result of the draw is a
\* single direction, a member of the value, of weight above 0.
C27_RandomDirectionWeighted ==
  Returned("random_direction") =>
    IF \A b \in arg.self : Weights(arg.wm, arg.point, {b}) = 0
    THEN ret = {Err}
    ELSE /\ ret # {}
         /\ \A d \in ret :
              /\ d \in Singles
              /\ Contains(arg.self, d)
              /\ Weights(arg.wm, arg.point, d) > 0

C27_Witness ==
  /\ Returned("random_direction") /\ arg.wm = "vertical"
  /\ arg.self = NORTH \cup EAST \cup SOUTH
  /\ ret = {NORTH, SOUTH}

\* The place of a single direction in the order N, NE, E, SE, S, SW, W, NW.
Place(d) == CHOOSE i \in 1..8 : DIRECTIONS[i] = d

\* C28: iterating a value yields each member, a single direction, exactly
\* once and in the order N, NE, E, SE, S, SW, W, NW, and removes each item
\* yielded from the value; after the last item the value is empty and the
\* number of items is the number of bits.
C28_IterationInOrder ==
  (arg.op = "iter" /\ pc \in {"iterating", "returned"}) =>
    /\ \A i \in 1..Len(ret) : ret[i] \in Singles /\ Contains(arg.from, ret[i])
    /\ \A i, j \in 1..Len(ret) : i < j => Place(ret[i]) < Place(ret[j])
    /\ arg.self = arg.from \ UNION Range(ret)
    /\ pc = "returned" =>
         (arg.self = EmptyDirs /\ Len(ret) = Cardinality(arg.from))

C28_Witness ==
  /\ arg.op = "iter" /\ pc = "returned"
  /\ arg.from = NORTH \cup EAST \cup NORTHWEST
  /\ ret = <<NORTH, EAST, NORTHWEST>>


(***************************************************************************)
(* The main loop of PrimTree::tree (SpecPrim).                             *)
(***************************************************************************)
\* The stages of PrimTree::tree from the main loop on.
PrimStages == {"prim_loop", "prim_draw", "prim_review", "tree_done"}

\* The cells whose processed flag is set.
Processed == {i \in DOMAIN processed : processed[i]}

\* The output is a forest rooted at the seeds: every processed cell is
\* joined to a seed, no other cell has an edge, and the undirected edges
\* number the processed cells less the distinct seeds.
ForestOnProcessed ==
  /\ ReachFrom(tree, Range(initial_points)) = Processed
  /\ \A i \in DOMAIN tree : tree[i] # EmptyDirs => i \in Processed
  /\ Cardinality(EdgesOf(tree)) =
       Cardinality(Processed) - Cardinality(Range(initial_points))

\* A step that changes the output writes one edge, from the popped cell to
\* a cell whose processed flag the same step turns from false to true.
WritesOneEdgeToUnprocessed ==
  \E edge \in Singles :
    LET end == StepUsize(edge, PointOf(point_index, width))
        endpoint == end[1] * width + end[2]
    IN /\ endpoint \in DOMAIN processed
       /\ ~processed[endpoint] /\ processed'[endpoint]
       /\ tree' = [[tree EXCEPT ![point_index] = @ \cup edge]
                     EXCEPT ![endpoint] = @ \cup Reverse(edge)]

\* A step of the construction: no processed flag goes back to false, and
\* the output changes by one edge to a cell unprocessed until then.
FlagsAndOutputStep ==
  /\ \A i \in DOMAIN processed : processed[i] => processed'[i]
  /\ (tree' # tree) => WritesOneEdgeToUnprocessed

\* C29: in every state of the construction the output is an acyclic forest
\* whose number of undirected edges is the number of processed cells less
\* the number of distinct seeds; an edge is written to the output only when
\* its far endpoint was unprocessed just before; and a processed flag, once
\* true, stays true (it goes from false to true at most once).
C29_PrimLoopInvariant ==
  /\ [](pc \in PrimStages => ForestOnProcessed)
  /\ [][(pc \in PrimStages) => FlagsAndOutputStep]_vars

\* An edge to a processed cell has been drawn and left out of the output,
\* with three cells of a 2x2 grid joined by two edges.
C29_Witness ==
  /\ pc = "prim_draw" /\ width = 2 /\ height = 2
  /\ Cardinality(Processed) = 3 /\ Cardinality(EdgesOf(tree)) = 2
  /\ Cardinality(EdgesOf(possible_edges)) < 4

\* C30: the frontier queue of PrimTree::tree never holds the same cell
\* index at two positions, in any state of the construction.
C30_QueueHasNoDuplicates ==
  pc \in PrimStages =>
    \A i, j \in 1..Len(point_queue) :
      i # j => point_queue[i] # point_queue[j]


(***************************************************************************)
(* The channel between the walk and the writer thread (Spec).              *)
(***************************************************************************)
\* A step that changes the buffer or the count of writes is one turn of the
\* writer's receive loop: it takes the oldest message ((row, col), colour),
\* writes colour at x = col, y = row, and does nothing else.
OnePutPixelPerMessage ==
  /\ writer = "running" /\ chan # <<>>
  /\ chan' = Tail(chan)
  /\ image' = [image EXCEPT ![<<Head(chan)[1][2], Head(chan)[1][1]>>] = Head(chan)[2]]
  /\ bar' = bar + 1
  /\ tasks' = tasks /\ sent' = sent

\* A step of a call of the walk leaves the buffer alone and at most sends
\* one message, for its own coordinate.
TaskOnlySends ==
  /\ image' = image /\ bar' = bar
  /\ \/ chan' = chan /\ sent' = sent
     \/ \E t \in tasks : /\ chan' = Append(chan, <<t.pos, t.colour>>)
                         /\ sent' = Record(sent, t.pos)

\* The messages the writer has taken from the channel: one for every
\* write, and the one whose put_pixel panicked.
Received == bar + (IF writer = "panicked" THEN 1 ELSE 0)

\* No message is lost or duplicated: each message sent has been received
\* once or waits in the channel.
EachMessageOnce == Sends = Received + Len(chan)

\* C21: every mutation of the output buffer is one put_pixel of the writer
\* thread for one message received, at x = col, y = row of the message; the
\* calls of the walk only send; and each message sent is received exactly
\* once, none lost and none duplicated.
C21_SingleWriter ==
  /\ [](writer # "none" => EachMessageOnce)
  /\ [][(writer # "none" /\ (image' # image \/ bar' # bar))
          => OnePutPixelPerMessage]_vars
  /\ [][(writer # "none" /\ (tasks' # tasks \/ sent' # sent))
          => TaskOnlySends]_vars

\* What holds of the channel: the same, when the root coordinate is in the
\* grid.
C21_SingleWriterRootInGrid ==
  /\ []((writer # "none" /\ InGrid(Root)) => EachMessageOnce)
  /\ [][(writer # "none" /\ (image' # image \/ bar' # bar))
          => OnePutPixelPerMessage]_vars
  /\ [][(writer # "none" /\ (tasks' # tasks \/ sent' # sent))
          => TaskOnlySends]_vars


(***************************************************************************)
(* The index arithmetic (SpecProduct).                                     *)
(***************************************************************************)
\* C22: whenever width * height does not fit the index type, the tree
\* generators and lay_colours return an error, and so does the walk when
\* row * width + col does not fit: no call goes on with a wrapped value.
C22_OverflowIsError ==
  (pc = "returned" /\ arg.op \in {"num_pixels", "index"} /\ ret.overflow)
    => ret.status = "Err"

\* What holds of the arithmetic: where nothing overflows the value is the
\* product (the flattened index) itself, and an overflow ends in a panic or
\* goes on with the value wrapped to 32 bits, never in an Err.
C22_OverflowPanicsOrWraps ==
  (pc = "returned" /\ arg.op \in {"num_pixels", "index"}) =>
    /\ ret.status = (IF ret.overflow /\ build = "debug" THEN "Panic" ELSE "Ok")
    /\ (arg.op = "num_pixels" /\ arg.width[1] = 0 /\ arg.height = <<0, 3>>) =>
         ret.value = <<(3 * arg.width[2]) \div HalfWord, (3 * arg.width[2]) % HalfWord>>
    /\ (arg.op = "num_pixels" /\ arg.width = <<1, 0>> /\ arg.height = <<1, 0>>) =>
         (ret.overflow /\ ret.value = <<0, 0>>)


(***************************************************************************)
(* The available-edge grid of PrimTree::tree (SpecPrim).                   *)
(***************************************************************************)
\* The flattened index of the cell a direction leads to from cell i.
EndpointOf(i, d) ==
  StepUsize(d, PointOf(i, width))[1] * width + StepUsize(d, PointOf(i, width))[2]

\* Every available direction of every cell leads, without underflow, to a
\* cell of the grid whose available set holds the direction back.
AvailableSymmetricInBounds ==
  \A i \in DOMAIN possible_edges : \A d \in Singles :
    Contains(possible_edges[i], d) =>
      /\ ~StepOverflows(d, PointOf(i, width))
      /\ InGrid(StepUsize(d, PointOf(i, width)))
      /\ Contains(possible_edges[EndpointOf(i, d)], Reverse(d))

\* A step that changes the available-edge grid removes one edge, at the
\* popped cell and at the cell it leads to, and nothing else.
RemovesEdgeAtBothEnds ==
  \E d \in Singles :
    /\ Contains(possible_edges[point_index], d)
    /\ possible_edges' =
         [[possible_edges EXCEPT ![point_index] = @ \ d]
            EXCEPT ![EndpointOf(point_index, d)] = @ \ Reverse(d)]

\* C31: throughout PrimTree::tree the available-edge grid is symmetric and
\* in bounds; every drawn edge leaves both endpoints in the same step; and
\* following a drawn edge never underflows a coordinate or indexes outside
\* the grid, so the loop never ends in a panic or an error.
C31_AvailableEdgesSymmetric ==
  /\ [](pc \in PrimStages => AvailableSymmetricInBounds)
  /\ [][(pc \in PrimStages) =>
          /\ (possible_edges' # possible_edges => RemovesEdgeAtBothEnds)
          /\ pc' \in PrimStages]_vars

\* A diagonal edge of a 2x2 grid has been drawn and has left both ends.
C31_Witness ==
  /\ pc = "prim_review" /\ width = 2 /\ height = 2 /\ point_index = 0
  /\ ~Contains(possible_edges[0], SOUTHEAST)
  /\ ~Contains(possible_edges[3], NORTHWEST)
  /\ Contains(possible_edges[0], EAST) /\ Contains(possible_edges[1], WEST)


\* C32: when the draw loop of a popped cell has ended, the cell is pushed
\* back onto the frontier queue if and only if its available-edge set is
\* not empty, and otherwise the queue is left as it is; a cell popped with
\* an empty available set commits no edge and goes to that review.
C32_RequeueRule ==
  [][/\ (pc = "prim_review" /\ point_index \in DOMAIN possible_edges) =>
          /\ pc' = "prim_loop"
          /\ point_queue' = IF possible_edges[point_index] # EmptyDirs
                            THEN Append(point_queue, point_index)
                            ELSE point_queue
     /\ (/\ pc = "prim_draw" /\ point_index \in DOMAIN possible_edges
         /\ possible_edges[point_index] = EmptyDirs) =>
          /\ pc' = "prim_review"
          /\ tree' = tree /\ point_queue' = point_queue]_vars

\* A cell has been retired while others wait, and one waits that was
\* pushed back with edges left.
C32_Witness ==
  /\ pc = "prim_loop" /\ width * height = 4
  /\ possible_edges[point_index] = EmptyDirs
  /\ point_index \notin Range(point_queue)
  /\ \E i \in 1..Len(point_queue) :
       /\ possible_edges[point_queue[i]] # EmptyDirs
       /\ tree[point_queue[i]] # EmptyDirs


(***************************************************************************)
(* PrimTree::tree with several initial points (SpecPrimSeeds).             *)
(***************************************************************************)
\* C33: with k >= 1 distinct in-range initial points, PrimTree::tree ends
\* with every cell processed and an output of exactly width*height - k
\* undirected edges in which every cell is joined to an initial point and
\* no two initial points are joined: every connected component holds
\* exactly one initial point.
C33_ForestOfSeeds ==
  pc = "tree_done" =>
    /\ \A i \in DOMAIN processed : processed[i]
    /\ Cardinality(EdgesOf(tree)) = width * height - Len(initial_points)
    /\ ReachFrom(tree, Range(initial_points)) = DOMAIN tree
    /\ \A s \in Range(initial_points) :
         ReachFrom(tree, {s}) \cap Range(initial_points) = {s}

\* Two trees on a 2x2 grid: a seed that kept one cell for itself next to a
\* seed that took the other.
C33_Witness ==
  /\ pc = "tree_done" /\ width = 2 /\ height = 2
  /\ initial_points = <<0, 3>>
  /\ Cardinality(EdgesOf(tree)) = 2
  /\ ReachFrom(tree, {0}) = {0, 1} /\ ReachFrom(tree, {3}) = {2, 3}


(***************************************************************************)
(* The weights new_image configures for Prim (SpecPrim).                   *)
(***************************************************************************)
\* The weight the claim gives for direction d at the cell (row, col).
ClaimedWeight(d, cell) ==
  IF d \in {NORTH, SOUTH} THEN 1 + 2 * cell[2]
  ELSE IF d \in {EAST, WEST} THEN 1 + 2 * cell[1]
  ELSE 1 + cell[1] + cell[2]

\* C34: the weight new_image configures for Prim is a function of the
\* popped cell's own (row, col) and the direction alone, whatever the start
\* point: 1 + 2*col for N and S, 1 + 2*row for E and W, 1 + row + col for
\* the diagonals; it is at least 1, so a draw from a non-empty available
\* set never fails for its weights.
C34_ImageWeight ==
  (pc = "prim_draw" /\ weights = "image" /\ point_index \in DOMAIN possible_edges) =>
    /\ \A d \in Singles :
         /\ Weights(weights, PointOf(point_index, width), d)
              = ClaimedWeight(d, <<point_index \div width, point_index % width>>)
         /\ Weights(weights, PointOf(point_index, width), d) >= 1
    /\ possible_edges[point_index] # EmptyDirs =>
         Err \notin RandomDirection(possible_edges[point_index], weights,
                                    PointOf(point_index, width))

\* The cell (row 1, col 0) of a 2x2 grid draws, from a start point that is
\* not the origin, with weight 1 to the north, 3 to the east and 2 to the
\* north-east.
C34_Witness ==
  /\ pc = "prim_draw" /\ weights = "image" /\ width = 2 /\ height = 2
  /\ point_index = 2 /\ initial_points # <<0>>
  /\ possible_edges[2] = NORTH \cup EAST \cup NORTHEAST
  /\ Weights(weights, <<1, 0>>, NORTH) = 1
  /\ Weights(weights, <<1, 0>>, EAST) = 3
  /\ Weights(weights, <<1, 0>>, NORTHEAST) = 2


(***************************************************************************)
(* The start point of new_image (Spec).                                    *)
(***************************************************************************)
\* The calls of the walk pending for the root: the one lay_colours makes.
RootCalls == {t \in tasks : t.path = <<>>}

\* C35: with the Prim generator the cell the colourer starts from is the
\* Prim seed: the flattened seed index given as initial_points equals
\* root_row * width + root_col of the root coordinate lay_colours is
\* called with.
C35_RootIsSeed ==
  (pc = "scope" /\ tree_gen = "Prim") =>
    \A t \in RootCalls : initial_points[1] = t.pos[1] * width + t.pos[2]

\* What holds of the two: they name cells mirrored in the diagonal, the
\* seed (row start_col, col start_row) and the root (row start_row, col
\* start_col), and so the same cell when the offsets are equal or the grid
\* is one column wide.
C35_RootIsSeedTransposed ==
  (pc = "scope" /\ tree_gen = "Prim") =>
    \A t \in RootCalls :
      /\ t.pos = <<start_row, start_col>>
      /\ initial_points[1] = start_col * width + start_row
      /\ (start_row = start_col \/ width = 1) =>
           initial_points[1] = t.pos[1] * width + t.pos[2]

\* C36: for every accepted start point, every sx in 0..width and sy in
\* 0..height, the root coordinate (row, col) lay_colours is called with has
\* row < height and col < width, and the Prim seed index is below
\* width * height.
C36_StartInRange ==
  /\ pc = "scope" => \A t \in RootCalls : InGrid(t.pos)
  /\ (tree_gen = "Prim" /\ pc # "tree") =>
       initial_points[1] \in 0..(width * height - 1)


(***************************************************************************)
(* The walk on a grid with a cycle (SpecCycle).                            *)
(***************************************************************************)
\* The cells joined to the root of the walk.
RootComponent == ReachFrom(tree, {start_row * width + start_col})

\* The root's component holds a cycle: it has as many edges as cells, or
\* more.
CycleFromRoot ==
  Cardinality({e \in EdgesOf(tree) : e \subseteq RootComponent})
    >= Cardinality(RootComponent)

\* No call of the colour generator can panic: the Test generator, or the
\* Rand generator with a step size above 0.
NoColourPanic == colour_gen = "Rand" => step_size > 0

\* C37: on a symmetric, in-bounds grid with a cycle joined to the root
\* lay_colours never runs out of pending calls: from the call of the root
\* on, the scope is never left and some call is always pending.
C37_CycleNeverEnds ==
  \/ pc = "pruned"
  \/ pc = "scope" /\ tasks # {}
  \/ ~CycleFromRoot

\* What holds of the walk on such a grid: with a colour generator that
\* cannot panic some call is pending in every state, and by the time every
\* chain of calls is MaxDepth long some coordinate has been sent twice.
C37_CycleNeverEndsNoPanic ==
  \/ pc = "pruned"
  \/ ~NoColourPanic
  \/ /\ pc = "scope" /\ tasks # {}
     /\ (\A t \in tasks : Len(t.path) = MaxDepth) =>
          \E p \in DOMAIN sent : sent[p] >= 2
  \/ ~CycleFromRoot


(***************************************************************************)
(* The upper end of rand_channel (SpecChannel).                            *)
(***************************************************************************)
\* C38: rand_channel never returns old.saturating_add(step_size), the
\* upper bound of its range being exclusive; every value it returns is at
\* most 254, so that a channel of a pixel coloured by the Random generator,
\* which is 0 at the root or a value rand_channel returned, is never 255.
C38_UpperBoundExclusive ==
  pc = "rand_channel_done" =>
    \A out \in ret :
      ~out.panic =>
        /\ out.value # SaturatingAdd(arg[1], arg[2])
        /\ out.value < SaturatingAdd(arg[1], arg[2])
        /\ out.value <= U8Max - 1

\* From 250 with step 10 the range reaches the top: 254 is returned and
\* 255 is not.
C38_Witness ==
  /\ pc = "rand_channel_done" /\ arg = <<250, 10>>
  /\ \E out \in ret : ~out.panic /\ out.value = U8Max - 1
  /\ \A out \in ret : ~out.panic /\ out.value # U8Max


(***************************************************************************)
(* step and reverse together (SpecDirs).                                   *)
(***************************************************************************)
\* C39: for every single direction d and every coordinate p of the grid
\* whose step(d, p) is a coordinate of the grid again, the step back leads
\* home: step(reverse(d), step(d, p)) = p.
C39_StepReverseRoundTrip ==
  (Returned("round_trip") /\ arg.self \in Singles /\ ret.there \in Coordinates)
    => ret.back = arg.pos

\* South-east from (0, 1) to (1, 2) and back.
C39_Witness ==
  /\ Returned("round_trip") /\ arg.self = SOUTHEAST /\ arg.pos = <<0, 1>>
  /\ ret.there = <<1, 2>> /\ ret.back = <<0, 1>>

====
